---- MODULE Spec2Model ----
(***************************************************************************)
(* Model of the broadcast delivery engine of                               *)
(* handlers/admin/sender/sender_service.py: RateLimiter, BroadcastMessage  *)
(* and BroadcastService (workers, delayed-message processor, broadcast()). *)
(*                                                                         *)
(* Time is discrete.  One clock tick is one second: the rate window        *)
(* (1.0 s), the drain poll of broadcast() (1 s) and Telegram's retry_after *)
(* (whole seconds) are whole ticks.  The clock itself is not stored: a     *)
(* timestamp is kept as its age (now - timestamp) and a sleep as the time  *)
(* that is left of it; Tick advances both.  The sub-second polls           *)
(* (sleep(0.1), the 0.1 s timeout of wait_for) take less than a tick.      *)
(*                                                                         *)
(* The tasks run on one asyncio event loop: an action is the code a task   *)
(* runs between two suspension points.  The loop runs every task that can  *)
(* resume before it waits for time to pass, so Tick is taken only when no  *)
(* task is ready; the tasks that are ready at the same tick run in any     *)
(* order.  A send call and a progress callback are external and take any   *)
(* time.                                                                   *)
(*                                                                         *)
(* Two more components are modelled, each with its own variables and its   *)
(* own specification, under which the variables of the others stay as      *)
(* they start: ConcurrencyLimiterMiddleware of middlewares/concurrency.py  *)
(* (LimiterSpec) and the webhook abuse counter of core/webhook_abuse.py    *)
(* (AbuseSpec).  A fourth specification, RobokassaSpec, models the         *)
(* deliveries of the Robokassa result webhook for one payment id           *)
(* (handlers/payments/robokassa/webhook.py, database/payments.py): each    *)
(* delivery is a handler of its own with its own database session, and     *)
(* the handlers interleave at their awaits.                                *)
(***************************************************************************)
EXTENDS Integers, Sequences, FiniteSets, TLC

\* ---------------------------------------------------------------- bounds
MaxMessages == 2
MaxWorkers == 2
MaxRate == 1
MaxRetryAfter == 1
MaxFloods == 4
MaxUpdates == 3
ConcurrencyLimit == 2
MaxWaitSec == 1
FailThreshold == 2
FailWindowSec == 2
BlockTtlSec == 2
MaxDeliveries == 2

\* ------------------------------------------------------ program constants
Window == 1
Epsilon == 1
MaxAttempts == 3
DrainPoll == 1
ProgressInterval == 2

VARIABLES
  messages,       \* broadcast(messages=...): the tg_id of each message
  workers,        \* broadcast(workers=...)
  on_progress,    \* TRUE iff broadcast() was given an on_progress callback
  session,        \* TRUE iff BroadcastService was given a session
  is_running,     \* BroadcastService.is_running
  queue,          \* BroadcastService.queue: units ready to send
  unfinished,     \* queue._unfinished_tasks, what queue.join() waits for
  delayed_queue,  \* BroadcastService.delayed_queue
  results,        \* BroadcastService.results: its numbers of True and of False entries
  total_sent,     \* BroadcastService.total_sent
  blocked_users,  \* BroadcastService.blocked_users
  attempts,       \* BroadcastMessage.attempts, per unit
  retry_after,    \* BroadcastMessage.retry_after, per unit (0 is None)
  send_times,     \* RateLimiter.send_times, as ages, oldest first
  lock,           \* RateLimiter.lock: holder first, then the waiters in order
  wpc,            \* position of each worker task
  wmsg,           \* the unit a worker holds (0: none)
  wtimer,         \* time left of a worker's sleep inside acquire()
  spc,            \* position of the delayed-message task
  smsg,           \* the unit the delayed-message task holds (0: none)
  stimer,         \* time left of its sleep(msg.retry_after)
  bpc,            \* position of broadcast()
  btimer,         \* time left of its sleep(1)
  stats,          \* the dict broadcast() returns
  sends,          \* history: number of bot.send_* calls made for each unit
  last,           \* history: classified outcome of each unit's last send
  grants,         \* history: ages of the grants of acquire(), up to Window
  recorded,       \* history: the results appended for each unit
  saved,          \* history: the lists handed to save_blocked_user_ids
  ppc,            \* position of the progress task
  ptimer,         \* time left of its sleep(interval)
  reported,       \* history: the arguments of the last on_progress call
  elapsed,        \* time.time() - start_time, up to ElapsedCap
  since,          \* history: time since the RateLimited answer a unit waits
                  \* out (0 when it waits out none), up to SinceCap
  semaphore,      \* ConcurrencyLimiterMiddleware._semaphore: its free permits
  sem_waiters,    \* the updates suspended in _semaphore.acquire(), in order
  upc,            \* position of each update inside __call__ ("none": no update)
  age,            \* time.monotonic() - data["request_time"] of a waiting update
  exit_path,      \* history: how the last update left __call__
  fail_count,     \* Redis: the value of webhook_abuse_fail:<ip> (0: no key)
  fail_ttl,       \* Redis: the time the fail key has left (0: none set)
  block_ttl,      \* Redis: the time webhook_abuse_block:<ip> has left (0: no key)
  fail_ages,      \* history: the ages of the failures of the last fail window
  block_seen,     \* history: the failures of the window that set the block
  registered,     \* TRUE once the payment has been started
  payment_cache,  \* Redis: TRUE iff payment_pending:<pid> is there (status pending)
  payments,       \* the committed rows of payments with this payment_id: the
                  \* status of each, the row's id being its index
  hpc,            \* position of each delivery inside robokassa_webhook
  payment,        \* what get_payment_by_payment_id returned to each delivery
  inserted,       \* TRUE iff the delivery's session holds an uncommitted insert
  credits,        \* history: the number of update_balance calls that credited
  response        \* the response each delivery got

engineVars == <<messages, workers, on_progress, is_running, queue, unfinished,
          delayed_queue, results, total_sent, blocked_users, attempts,
          retry_after, send_times, lock, wpc, wmsg, wtimer, spc, smsg, stimer,
          bpc, btimer, stats, sends, last, grants, recorded, session, saved,
          ppc, ptimer, reported, elapsed, since>>
limiterVars == <<semaphore, sem_waiters, upc, age, exit_path>>
abuseVars == <<fail_count, fail_ttl, block_ttl, fail_ages, block_seen>>
payVars == <<registered, payment_cache, payments, hpc, payment, inserted,
             credits, response>>
otherVars == <<limiterVars, abuseVars, payVars>>
vars == <<engineVars, limiterVars, abuseVars, payVars>>

inputVars == <<messages, workers, on_progress, session>>
gateVars == <<send_times, lock, grants>>
unitVars == <<attempts, retry_after, since>>
countVars == <<results, total_sent, blocked_users>>
schedVars == <<spc, smsg, stimer>>
workerVars == <<wpc, wmsg, wtimer>>
progressVars == <<ppc, ptimer, reported>>
mainVars == <<bpc, btimer, stats, is_running, saved, progressVars, elapsed>>

Units == 1..Len(messages)
Workers == 1..MaxWorkers
Tasks == 1..workers
NoStats == [returned |-> FALSE]
NoReport == [called |-> FALSE]

\* the list of results is read only through its length and its number of
\* True entries, and is kept as the numbers of its True and False entries
NoResults == [ok |-> 0, failed |-> 0]
ResultsAppend(res, r) ==
  IF r THEN [res EXCEPT !.ok = @ + 1] ELSE [res EXCEPT !.failed = @ + 1]
ResultsLen(res) == res.ok + res.failed

Max(a, b) == IF a > b THEN a ELSE b
Min(a, b) == IF a < b THEN a ELSE b

\* the number of whole windows that must pass before the n-th grant
MinWindows(n) == IF n = 0 THEN 0 ELSE (n + MaxRate - 1) \div MaxRate - 1

\* the run time is counted up to the least time the longest list takes
ElapsedCap == MinWindows(MaxMessages) * Window

\* the time since a RateLimited answer is counted up to just past the
\* longest retry_after
SinceCap == MaxRetryAfter + 1

\* the recipient lists: up to MaxMessages messages to different recipients,
\* and two messages to the same recipient
RecipientLists == {[i \in 1..n |-> i] : n \in 0..MaxMessages} \cup {<<1, 1>>}

\* ------------------------------------------------------------ RateLimiter

\* a clean-up that forgets every timestamp
CleanEverything(times) == <<>>

\* _clean_old_timestamps: pop from the left while send_times[0] <= now - window,
\* that is while the age of the oldest timestamp is at least the window
RECURSIVE CleanOldTimestamps(_)
CleanOldTimestamps(times) ==
  IF times # <<>> /\ Head(times) >= Window
  THEN CleanOldTimestamps(Tail(times))
  ELSE times

\* a window that admits one call too many
HasRoomOffByOne(times) == Len(times) <= MaxRate

\* the test that lets acquire() record a timestamp and return
HasRoom(times) == Len(times) < MaxRate

\* a lock that any waiter takes, held or not
LockTakenByAnyWaiter(lk, w) == \E i \in 1..Len(lk) : lk[i] = w

\* `async with self.lock`: asyncio.Lock wakes its waiters first come, first
\* served; a waiter gets the lock once every caller before it has released it
LockHandedTo(lk, w) == lk # <<>> /\ Head(lk) = w

\* one iteration of the loop of acquire() by worker w, which holds the lock;
\* lk is the lock with w at its head.  A grant releases the lock and the
\* worker goes on to call bot.send_message / send_photo; otherwise the worker
\* sleeps, still holding the lock, and iterates again when it wakes (at once
\* if time_to_wait is not positive)
AcquireIteration(w, lk) ==
  LET cleaned == CleanOldTimestamps(send_times) IN
  IF HasRoom(cleaned)
  THEN /\ send_times' = Append(cleaned, 0)
       /\ grants' = Append(grants, 0)
       /\ lock' = Tail(lk)
       /\ wpc' = [wpc EXCEPT ![w] = "send"]
       /\ wtimer' = [wtimer EXCEPT ![w] = 0]
       /\ sends' = [sends EXCEPT ![wmsg'[w]] = @ + 1]
  ELSE LET time_to_wait == Window - Head(cleaned) IN
       /\ send_times' = cleaned
       /\ grants' = grants
       /\ lock' = lk
       /\ sends' = sends
       /\ IF time_to_wait > 0
          THEN /\ wpc' = [wpc EXCEPT ![w] = "gate_sleep"]
               /\ wtimer' = [wtimer EXCEPT ![w] = time_to_wait + Epsilon]
          ELSE /\ wpc' = [wpc EXCEPT ![w] = "gate_sleep"]
               /\ wtimer' = [wtimer EXCEPT ![w] = 0]

\* ------------------------------------------------------------------ Init

EngineInit ==
  /\ messages \in RecipientLists
  /\ workers \in {0, MaxWorkers}
  /\ on_progress \in BOOLEAN
  /\ session \in BOOLEAN
  /\ is_running = FALSE
  /\ queue = <<>>
  /\ unfinished = 0
  /\ delayed_queue = <<>>
  /\ results = NoResults
  /\ total_sent = 0
  /\ blocked_users = {}
  /\ attempts = [u \in Units |-> 0]
  /\ retry_after = [u \in Units |-> 0]
  /\ send_times = <<>>
  /\ lock = <<>>
  /\ wpc = [w \in Workers |-> "none"]
  /\ wmsg = [w \in Workers |-> 0]
  /\ wtimer = [w \in Workers |-> 0]
  /\ spc = "none"
  /\ smsg = 0
  /\ stimer = 0
  /\ bpc = "init"
  /\ btimer = 0
  /\ stats = NoStats
  /\ sends = [u \in Units |-> 0]
  /\ last = [u \in Units |-> "none"]
  /\ grants = <<>>
  /\ recorded = [u \in Units |-> <<>>]
  /\ saved = <<>>
  /\ ppc = "none"
  /\ ptimer = 0
  /\ reported = NoReport
  /\ elapsed = 0
  /\ since = [u \in Units |-> 0]

\* ConcurrencyLimiterMiddleware.__init__
LimiterInit ==
  /\ semaphore = ConcurrencyLimit
  /\ sem_waiters = <<>>
  /\ upc = [u \in 1..MaxUpdates |-> "none"]
  /\ age = [u \in 1..MaxUpdates |-> 0]
  /\ exit_path = "none"

\* the client addresses get_webhook_client_ip returns
Ips == {"unknown", "ip1", "ip2"}

\* Redis holds no key of the abuse counter
AbuseInit ==
  /\ fail_count = [ip \in Ips |-> 0]
  /\ fail_ttl = [ip \in Ips |-> 0]
  /\ block_ttl = [ip \in Ips |-> 0]
  /\ fail_ages = [ip \in Ips |-> <<>>]
  /\ block_seen = [ip \in Ips |-> 0]

Deliveries == 1..MaxDeliveries
NoPayment == [found |-> FALSE, id |-> 0, status |-> "none"]

\* no payment has been started and no webhook delivered
RobokassaInit ==
  /\ registered = FALSE
  /\ payment_cache = FALSE
  /\ payments = <<>>
  /\ hpc = [d \in Deliveries |-> "none"]
  /\ payment = [d \in Deliveries |-> NoPayment]
  /\ inserted = [d \in Deliveries |-> FALSE]
  /\ credits = 0
  /\ response = [d \in Deliveries |-> "none"]

Init == EngineInit /\ LimiterInit /\ AbuseInit /\ RobokassaInit

\* ---------------------------------------------------------------- worker

RECURSIVE SumTo(_, _)
SumTo(f, n) == IF n = 0 THEN 0 ELSE f[n] + SumTo(f, n - 1)

\* the TelegramRetryAfter answers given so far in the run
Floods == SumTo(attempts, Len(messages))

ExceptionKinds ==
  {"ok", "TelegramRetryAfter", "TelegramForbiddenError",
   "TelegramBadRequest_chat_not_found", "TelegramBadRequest", "Exception"}

\* the outcome classes of the send capability
Classify(exc) ==
  CASE exc = "ok" -> "Success"
    [] exc = "TelegramRetryAfter" -> "RateLimited"
    [] exc \in {"TelegramForbiddenError", "TelegramBadRequest_chat_not_found"}
         -> "RecipientUnreachable"
    [] OTHER -> "TransientError"

\* a test that marks the recipient blocked after any TelegramBadRequest
MarksBlockedOnBadRequest(exc) ==
  exc \in {"TelegramForbiddenError", "TelegramBadRequest_chat_not_found",
           "TelegramBadRequest"}

\* _send_single_message: the except clauses that add the recipient to
\* blocked_users: TelegramForbiddenError, and TelegramBadRequest with
\* "chat not found" in its text
MarksBlocked(exc) ==
  exc \in {"TelegramForbiddenError", "TelegramBadRequest_chat_not_found"}

\* a failure recorded for every send that returned False
RecordsEveryFailure(att) == TRUE

\* a failure recorded only for a unit that has been retried
RecordsFailureAfterRetry(att) == att > 0

\* _worker: the test that records a failure for a send that returned False
RecordsFailure(att) == att = 0

\* a task_done() that is skipped
TaskDoneSkipped(n) == n

\* queue.task_done(): one unfinished task less
TaskDone(n) == n - 1

\* _worker: msg = await wait_for(queue.get(), 0.1), then _send_single_message
\* up to its first suspension: acquire() takes the lock if it is free and runs
\* its loop, or waits for the lock.  The workers that wait in queue.get() are
\* alike: the one with the least index takes the unit
WorkerGet(w) ==
  /\ wpc[w] = "get"
  /\ \A v \in Workers : wpc[v] = "get" => w <= v
  /\ queue # <<>>
  /\ queue' = Tail(queue)
  /\ wmsg' = [wmsg EXCEPT ![w] = Head(queue)]
  /\ IF lock = <<>>
     THEN AcquireIteration(w, <<w>>)
     ELSE /\ lock' = Append(lock, w)
          /\ wpc' = [wpc EXCEPT ![w] = "lock"]
          /\ UNCHANGED <<send_times, grants, wtimer, sends>>
  /\ UNCHANGED <<otherVars, inputVars, unfinished, delayed_queue, countVars, unitVars,
                 schedVars, mainVars, last, recorded>>

\* _worker: wait_for times out on an empty queue; `continue` re-tests
\* is_running
WorkerTimeout(w) ==
  /\ wpc[w] = "get"
  /\ queue = <<>>
  /\ wpc' = [wpc EXCEPT ![w] = IF is_running THEN "get" ELSE "exit"]
  /\ UNCHANGED <<otherVars, inputVars, queue, unfinished, delayed_queue, countVars,
                 unitVars, gateVars, wmsg, wtimer, schedVars, mainVars,
                 sends, last, recorded>>

\* acquire(): the lock is handed to the first waiter, which runs the loop
LockAcquired(w) ==
  /\ wpc[w] = "lock"
  /\ LockHandedTo(lock, w)
  /\ wmsg' = wmsg
  /\ AcquireIteration(w, lock)
  /\ UNCHANGED <<otherVars, inputVars, queue, unfinished, delayed_queue, countVars,
                 unitVars, schedVars, mainVars, last, recorded>>

\* acquire(): the sleep is over, the loop iterates again
AcquireWake(w) ==
  /\ wpc[w] = "gate_sleep"
  /\ wtimer[w] = 0
  /\ wmsg' = wmsg
  /\ AcquireIteration(w, lock)
  /\ UNCHANGED <<otherVars, inputVars, queue, unfinished, delayed_queue, countVars,
                 unitVars, schedVars, mainVars, last, recorded>>

\* the send call of worker w returns or raises exc (with e.retry_after = r):
\* the except clauses of _send_single_message, then the bookkeeping of
\* _worker and queue.task_done()
SendReturns(w, exc, r) ==
  LET m == wmsg[w]
      success == exc = "ok"
      att == IF exc = "TelegramRetryAfter" THEN attempts[m] + 1 ELSE attempts[m]
  IN
  /\ wpc[w] = "send"
  /\ exc = "TelegramRetryAfter" => Floods < MaxFloods
  /\ attempts' = [attempts EXCEPT ![m] = att]
  /\ retry_after' = IF exc = "TelegramRetryAfter"
                    THEN [retry_after EXCEPT ![m] = r] ELSE retry_after
  /\ delayed_queue' = IF exc = "TelegramRetryAfter"
                      THEN Append(delayed_queue, m) ELSE delayed_queue
  /\ since' = [since EXCEPT ![m] = 0]
  /\ blocked_users' =
       IF MarksBlocked(exc)
       THEN blocked_users \cup {messages[m]} ELSE blocked_users
  /\ total_sent' = IF success THEN total_sent + 1 ELSE total_sent
  /\ results' = IF success THEN ResultsAppend(results, TRUE)
                ELSE IF RecordsFailure(att) THEN ResultsAppend(results, FALSE)
                     ELSE results
  /\ recorded' = IF success THEN [recorded EXCEPT ![m] = Append(@, TRUE)]
                 ELSE IF RecordsFailure(att)
                      THEN [recorded EXCEPT ![m] = Append(@, FALSE)]
                      ELSE recorded
  /\ unfinished' = TaskDone(unfinished)
  /\ last' = [last EXCEPT ![m] = Classify(exc)]
  /\ wmsg' = [wmsg EXCEPT ![w] = 0]
  /\ wpc' = [wpc EXCEPT ![w] = IF is_running THEN "get" ELSE "exit"]
  /\ UNCHANGED <<otherVars, inputVars, queue, gateVars, wtimer, schedVars, mainVars, sends>>

\* ------------------------------------------------- _process_delayed_messages

\* a test that lets a unit be tried once more
MayRetryOnceMore(att) == att <= MaxAttempts

\* the test that puts a delayed unit back on the queue
MayRetry(att) == att < MaxAttempts

\* a sleep that is one second short
SleepsShort(r) == r - 1

\* await asyncio.sleep(msg.retry_after)
SleepsFor(r) == r

\* the tail of one iteration for unit m: clear retry_after, requeue or give up
DelayedFinish(m) ==
  /\ retry_after' = [retry_after EXCEPT ![m] = 0]
  /\ since' = [since EXCEPT ![m] = 0]
  /\ IF MayRetry(attempts[m])
     THEN /\ queue' = Append(queue, m)
          /\ unfinished' = unfinished + 1
          /\ UNCHANGED <<results, recorded>>
     ELSE /\ results' = ResultsAppend(results, FALSE)
          /\ recorded' = [recorded EXCEPT ![m] = Append(@, FALSE)]
          /\ UNCHANGED <<queue, unfinished>>
  /\ spc' = "poll"
  /\ smsg' = 0
  /\ stimer' = 0

\* a get() that leaves the unit in the queue
GetLeaves(q) == q

\* delayed_queue.get() takes the first unit out of the queue
GetRemoves(q) == Tail(q)

\* the loop finds the delayed queue non-empty and takes its first unit
DelayedGet ==
  /\ spc = "poll"
  /\ is_running
  /\ delayed_queue # <<>>
  /\ LET m == Head(delayed_queue) IN
       /\ delayed_queue' = GetRemoves(delayed_queue)
       /\ IF retry_after[m] # 0
          THEN /\ spc' = "sleep"
               /\ smsg' = m
               /\ stimer' = SleepsFor(retry_after[m])
               /\ UNCHANGED <<queue, unfinished, results, recorded, retry_after,
                              since>>
          ELSE DelayedFinish(m)
  /\ UNCHANGED <<otherVars, inputVars, total_sent, blocked_users, attempts, gateVars,
                 workerVars, mainVars, sends, last>>

\* sleep(msg.retry_after) is over
DelayedWake ==
  /\ spc = "sleep"
  /\ stimer = 0
  /\ DelayedFinish(smsg)
  /\ UNCHANGED <<otherVars, inputVars, delayed_queue, total_sent, blocked_users, attempts,
                 gateVars, workerVars, mainVars, sends, last>>

\* the loop finds the delayed queue empty and sleeps 0.1 s, or finds
\* is_running false and ends
DelayedIdle ==
  /\ spc = "poll"
  /\ ~is_running \/ delayed_queue = <<>>
  /\ spc' = IF is_running THEN "poll" ELSE "exit"
  /\ UNCHANGED <<otherVars, inputVars, queue, unfinished, delayed_queue, countVars,
                 unitVars, gateVars, workerVars, smsg, stimer, mainVars,
                 sends, last, recorded>>

\* --------------------------------------------------------------- broadcast

\* progress_task is created only for a callback and a non-empty list
HasProgressTask == on_progress /\ Len(messages) > 0

\* task.cancel() for the worker tasks and the delayed-message task, and the
\* gather that lets them end: CancelledError is raised at the await each task
\* is suspended in and no except clause catches it; leaving `async with`
\* releases the lock and a cancelled waiter leaves its queue
CancelTasks ==
  /\ wpc' = [w \in Workers |->
               IF wpc[w] \in {"get", "lock", "gate_sleep", "send"}
               THEN "cancelled" ELSE wpc[w]]
  /\ spc' = IF spc \in {"poll", "sleep"} THEN "cancelled" ELSE spc
  /\ lock' = <<>>

\* broadcast() up to `await self.queue.join()`
BroadcastStart ==
  /\ bpc = "init"
  /\ is_running' = TRUE
  /\ results' = NoResults
  /\ total_sent' = 0
  /\ blocked_users' = {}
  /\ queue' = queue \o [i \in 1..Len(messages) |-> i]
  /\ unfinished' = unfinished + Len(messages)
  /\ wpc' = [w \in Workers |-> IF w \in Tasks THEN "get" ELSE "none"]
  /\ spc' = "poll"
  /\ ppc' = IF HasProgressTask THEN "sleep" ELSE "none"
  /\ ptimer' = IF HasProgressTask THEN ProgressInterval ELSE 0
  /\ bpc' = "join"
  /\ UNCHANGED <<otherVars, inputVars, delayed_queue, unitVars, gateVars, wmsg, wtimer,
                 smsg, stimer, btimer, stats, sends, last, recorded, saved,
                 reported>>
  /\ elapsed' = 0

\* queue.join() returns once every queued unit has been marked done
JoinReturns ==
  /\ bpc = "join"
  /\ unfinished = 0
  /\ bpc' = "drain"
  /\ btimer' = DrainPoll
  /\ UNCHANGED <<otherVars, inputVars, is_running, queue, unfinished, delayed_queue,
                 countVars, unitVars, gateVars, workerVars, schedVars, stats,
                 sends, last, recorded, saved, progressVars,
                 elapsed>>

\* progress_task.cancel(): CancelledError is raised at the await the task is
\* suspended in, its own sleep or the callback, and `except Exception` does
\* not catch it
CancelProgress ==
  /\ ppc' = IF ppc \in {"sleep", "callback"} THEN "cancelled" ELSE ppc
  /\ ptimer' = 0

\* sleep(1) is over: sleep again while the delayed queue is not empty, else
\* stop the run; the progress task is cancelled, and without one the other
\* tasks are cancelled at once
DrainCheck ==
  /\ bpc = "drain"
  /\ btimer = 0
  /\ IF delayed_queue # <<>>
     THEN /\ btimer' = DrainPoll
          /\ UNCHANGED <<bpc, is_running, wpc, spc, lock, ppc, ptimer>>
     ELSE /\ is_running' = FALSE
          /\ btimer' = 0
          /\ IF HasProgressTask
             THEN /\ bpc' = "stop_progress"
                  /\ CancelProgress
                  /\ UNCHANGED <<wpc, spc, lock>>
             ELSE /\ bpc' = "gather"
                  /\ CancelTasks
                  /\ UNCHANGED <<ppc, ptimer>>
  /\ UNCHANGED <<otherVars, inputVars, queue, unfinished, delayed_queue, countVars,
                 unitVars, send_times, grants, wmsg, wtimer, smsg, stimer,
                 stats, sends, last, recorded, saved, reported,
                 elapsed>>

\* a report that counts the RateLimited answers as completed
ReportCountingRetries(final) ==
  LET completed == ResultsLen(results) + Floods
      sent == total_sent
  IN [called |-> TRUE, completed |-> completed, total |-> Len(messages),
      sent |-> sent, failed |-> completed - sent, final |-> final]

\* the arguments on_progress is called with
Report(final) ==
  LET completed == ResultsLen(results)
      sent == total_sent
  IN [called |-> TRUE, completed |-> completed, total |-> Len(messages),
      sent |-> sent, failed |-> completed - sent, final |-> final]

\* `await progress_task` returns for the cancelled task; the final on_progress
\* call starts
ProgressStopped ==
  /\ bpc = "stop_progress"
  /\ bpc' = "final_progress"
  /\ reported' = Report(TRUE)
  /\ UNCHANGED <<otherVars, inputVars, is_running, queue, unfinished, delayed_queue,
                 countVars, unitVars, gateVars, workerVars, schedVars, btimer,
                 stats, sends, last, recorded, saved, ppc, ptimer,
                 elapsed>>

\* the final call is inside try/except Exception: broadcast() goes on to
\* cancel the tasks whether the call returned or raised
AfterFinalProgress(raises) == "gather"

\* the final on_progress call returns or raises; the tasks are cancelled
FinalProgressReturns(raises) ==
  /\ bpc = "final_progress"
  /\ bpc' = AfterFinalProgress(raises)
  /\ CancelTasks
  /\ UNCHANGED <<otherVars, inputVars, is_running, queue, unfinished, delayed_queue,
                 countVars, unitVars, send_times, grants, wmsg, wtimer, smsg,
                 stimer, btimer, stats, sends, last, recorded, saved, ppc,
                 ptimer, reported,
                 elapsed>>

\* ---------------------------------------------------------- _progress_loop

\* sleep(interval) is over: the loop ends if the run has stopped, else it
\* calls on_progress with the numbers of this moment
ProgressWake ==
  /\ ppc = "sleep"
  /\ ptimer = 0
  /\ IF is_running
     THEN /\ ppc' = "callback"
          /\ reported' = Report(FALSE)
     ELSE /\ ppc' = "exit"
          /\ UNCHANGED reported
  /\ UNCHANGED <<otherVars, inputVars, is_running, queue, unfinished, delayed_queue,
                 countVars, unitVars, gateVars, workerVars, schedVars, bpc,
                 btimer, stats, sends, last, recorded, saved, ptimer,
                 elapsed>>

\* a periodic on_progress call whose exception ends the progress task
AfterProgressUncaught(raises) == IF raises THEN "failed" ELSE "sleep"

\* the periodic call is inside try/except Exception: the loop goes on to its
\* next sleep whether the call returned or raised
AfterProgress(raises) == "sleep"

\* the periodic on_progress call returns or raises
ProgressReturns(raises) ==
  /\ ppc = "callback"
  /\ ppc' = AfterProgress(raises)
  /\ ptimer' = ProgressInterval
  /\ UNCHANGED <<otherVars, inputVars, is_running, queue, unfinished, delayed_queue,
                 countVars, unitVars, gateVars, workerVars, schedVars, bpc,
                 btimer, stats, sends, last, recorded, saved, reported,
                 elapsed>>

\* the statistics broadcast() computes
Stats ==
  LET success_count == results.ok IN
  [returned |-> TRUE,
   total_duration |-> elapsed,
   total_sent |-> total_sent,
   success_count |-> success_count,
   failed_count |-> ResultsLen(results) - success_count,
   total_messages |-> Len(messages),
   blocked_users |-> Cardinality(blocked_users),
   blocked_user_ids |-> blocked_users]

\* gather() is done and _save_blocked_users() is called, for an engine with a
\* session only
CallsSave == session

\* _save_blocked_users(): nothing to save returns at once
SavesNothing == blocked_users = {}

\* _save_blocked_users() hands list(blocked_users) to save_blocked_user_ids
SaveStarts ==
  /\ bpc = "gather"
  /\ CallsSave /\ ~SavesNothing
  /\ saved' = Append(saved, blocked_users)
  /\ bpc' = "save"
  /\ UNCHANGED <<otherVars, inputVars, is_running, queue, unfinished, delayed_queue,
                 countVars, unitVars, gateVars, workerVars, schedVars, btimer,
                 stats, sends, last, recorded, progressVars,
                 elapsed>>

\* save_blocked_user_ids returns, or raises (execute or commit fails): the
\* except clause logs and, the session being the engine's own, rolls back
SaveReturns(ok) ==
  /\ bpc = "save"
  /\ bpc' = IF ok THEN "saved" ELSE "rollback"
  /\ UNCHANGED <<otherVars, inputVars, is_running, queue, unfinished, delayed_queue,
                 countVars, unitVars, gateVars, workerVars, schedVars, btimer,
                 stats, sends, last, recorded, saved, progressVars,
                 elapsed>>

\* session.rollback() is awaited inside the except clause: when it raises,
\* the exception leaves _save_blocked_users() and broadcast()
RollbackEnds(ok) == IF ok THEN "saved" ELSE "raised"

\* session.rollback() returns or raises
RollbackReturns(ok) ==
  /\ bpc = "rollback"
  /\ bpc' = RollbackEnds(ok)
  /\ UNCHANGED <<otherVars, inputVars, is_running, queue, unfinished, delayed_queue,
                 countVars, unitVars, gateVars, workerVars, schedVars, btimer,
                 stats, sends, last, recorded, saved, progressVars,
                 elapsed>>

\* broadcast() computes and returns its statistics: after gather() when
\* nothing is handed to save_blocked_user_ids, else after _save_blocked_users()
BroadcastReturns ==
  /\ \/ bpc = "gather" /\ (~CallsSave \/ SavesNothing)
     \/ bpc = "saved"
  /\ stats' = Stats
  /\ bpc' = "returned"
  /\ UNCHANGED <<otherVars, inputVars, is_running, queue, unfinished, delayed_queue,
                 countVars, unitVars, gateVars, workerVars, schedVars, btimer,
                 sends, last, recorded, saved, progressVars,
                 elapsed>>

\* -------------------------------------------------------------------- time

\* some task can resume now
Ready ==
  \/ \E w \in Workers :
       \/ wpc[w] = "get" /\ (queue # <<>> \/ ~is_running)
       \/ wpc[w] = "lock" /\ LockHandedTo(lock, w)
       \/ wpc[w] = "gate_sleep" /\ wtimer[w] = 0
  \/ spc = "poll" /\ (~is_running \/ delayed_queue # <<>>)
  \/ spc = "sleep" /\ stimer = 0
  \/ bpc = "join" /\ unfinished = 0
  \/ bpc = "drain" /\ btimer = 0
  \/ bpc \in {"stop_progress", "gather", "saved"}
  \/ ppc = "sleep" /\ ptimer = 0

\* one second passes
Tick ==
  /\ ~Ready
  /\ wtimer' = [w \in Workers |-> Max(0, wtimer[w] - 1)]
  /\ stimer' = Max(0, stimer - 1)
  /\ btimer' = Max(0, btimer - 1)
  /\ ptimer' = Max(0, ptimer - 1)
  /\ elapsed' = IF bpc \in {"init", "returned", "raised"}
                THEN elapsed ELSE Min(ElapsedCap, elapsed + 1)
  /\ send_times' = [i \in 1..Len(send_times) |-> Min(Window, send_times[i] + 1)]
  /\ grants' = SelectSeq([i \in 1..Len(grants) |-> grants[i] + 1],
                         LAMBDA a : a <= Window)
  /\ since' = [u \in Units |->
                 IF retry_after[u] # 0 THEN Min(SinceCap, since[u] + 1) ELSE since[u]]
  /\ UNCHANGED <<otherVars, inputVars, is_running, queue, unfinished, delayed_queue,
                 countVars, attempts, retry_after, lock, wpc, wmsg, spc, smsg, bpc, stats,
                 sends, last, recorded, saved, ppc, reported>>

Next ==
  \/ \E w \in Workers : WorkerGet(w)
  \/ \E w \in Workers : WorkerTimeout(w)
  \/ \E w \in Workers : LockAcquired(w)
  \/ \E w \in Workers : AcquireWake(w)
  \/ \E w \in Workers, exc \in ExceptionKinds, r \in 1..MaxRetryAfter :
       SendReturns(w, exc, r)
  \/ DelayedGet
  \/ DelayedWake
  \/ DelayedIdle
  \/ ProgressWake
  \/ \E raises \in BOOLEAN : ProgressReturns(raises)
  \/ BroadcastStart
  \/ JoinReturns
  \/ DrainCheck
  \/ ProgressStopped
  \/ \E raises \in BOOLEAN : FinalProgressReturns(raises)
  \/ SaveStarts
  \/ \E ok \in BOOLEAN : SaveReturns(ok)
  \/ \E ok \in BOOLEAN : RollbackReturns(ok)
  \/ BroadcastReturns
  \/ Tick

Spec == Init /\ [][Next]_vars

\* the steps of one task; at most one of them is enabled at a time
WorkerStep(w) ==
  \/ WorkerGet(w)
  \/ WorkerTimeout(w)
  \/ LockAcquired(w)
  \/ AcquireWake(w)
  \/ \E exc \in ExceptionKinds, r \in 1..MaxRetryAfter : SendReturns(w, exc, r)
DelayedStep == DelayedGet \/ DelayedWake \/ DelayedIdle
ProgressStep == ProgressWake \/ \E raises \in BOOLEAN : ProgressReturns(raises)
BroadcastStep ==
  \/ BroadcastStart
  \/ JoinReturns
  \/ DrainCheck
  \/ ProgressStopped
  \/ \E raises \in BOOLEAN : FinalProgressReturns(raises)
  \/ SaveStarts
  \/ \E ok \in BOOLEAN : SaveReturns(ok)
  \/ \E ok \in BOOLEAN : RollbackReturns(ok)
  \/ BroadcastReturns

\* the scheduling of the event loop: a task that can resume is run, a send
\* call, a callback and a call of the persistence collaborator return in the
\* end, and time passes
Fairness ==
  /\ \A w \in Workers : WF_vars(WorkerStep(w))
  /\ WF_vars(DelayedStep)
  /\ WF_vars(ProgressStep)
  /\ WF_vars(BroadcastStep)
  /\ WF_vars(Tick)

LiveSpec == Init /\ [][Next]_vars /\ Fairness

\* ------------------------------------------- ConcurrencyLimiterMiddleware

Updates == 1..MaxUpdates

\* the permits are held from the return of acquire() to the finally clause
PastSemaphore == {u \in Updates : upc[u] \in {"handler", "reject"}}

\* the test that turns a waiting update away
Stale(a) == a > MaxWaitSec

\* a release() that is left out
ReleaseSkipped(v) == v

\* finally: self._semaphore.release()
Release(v) == v + 1

\* data["request_time"] = time.monotonic(); await self._semaphore.acquire():
\* acquire() returns at once when a permit is free and nobody waits, and then
\* the age is zero; else the update waits in line
EnterSemaphore(u) ==
  /\ age' = [age EXCEPT ![u] = 0]
  /\ IF semaphore > 0 /\ sem_waiters = <<>>
     THEN /\ semaphore' = semaphore - 1
          /\ upc' = [upc EXCEPT ![u] = IF Stale(0) THEN "reject" ELSE "handler"]
          /\ UNCHANGED sem_waiters
     ELSE /\ sem_waiters' = Append(sem_waiters, u)
          /\ upc' = [upc EXCEPT ![u] = "acquire"]
          /\ UNCHANGED semaphore

\* an update reaches __call__: a CallbackQuery with a bot is answered first
UpdateArrives(u, callback) ==
  /\ upc[u] = "none"
  /\ \A v \in Updates : upc[v] = "none" => u <= v
  /\ IF callback
     THEN /\ upc' = [upc EXCEPT ![u] = "answer"]
          /\ UNCHANGED <<semaphore, sem_waiters, age>>
     ELSE EnterSemaphore(u)
  /\ UNCHANGED <<engineVars, abuseVars, payVars, exit_path>>

\* answer_callback_query returns or raises (caught)
AnswerReturns(u) ==
  /\ upc[u] = "answer"
  /\ EnterSemaphore(u)
  /\ UNCHANGED <<engineVars, abuseVars, payVars, exit_path>>

\* acquire() returns for the first waiter once a permit is free; the age
\* decides between the handler and _reject_stale
SemaphoreAcquired(u) ==
  /\ upc[u] = "acquire"
  /\ sem_waiters # <<>> /\ Head(sem_waiters) = u
  /\ semaphore > 0
  /\ semaphore' = semaphore - 1
  /\ sem_waiters' = Tail(sem_waiters)
  /\ upc' = [upc EXCEPT ![u] = IF Stale(age[u]) THEN "reject" ELSE "handler"]
  /\ age' = [age EXCEPT ![u] = 0]
  /\ UNCHANGED <<engineVars, abuseVars, payVars, exit_path>>

\* the handler returns or raises: the finally clause releases the permit
HandlerEnds(u, raises) ==
  /\ upc[u] = "handler"
  /\ semaphore' = Release(semaphore)
  /\ upc' = [upc EXCEPT ![u] = "none"]
  /\ exit_path' = IF raises THEN "raised" ELSE "returned"
  /\ UNCHANGED <<engineVars, abuseVars, payVars, sem_waiters, age>>

\* _reject_stale returns; `return None` runs the finally clause
RejectEnds(u) ==
  /\ upc[u] = "reject"
  /\ semaphore' = Release(semaphore)
  /\ upc' = [upc EXCEPT ![u] = "none"]
  /\ exit_path' = "rejected"
  /\ UNCHANGED <<engineVars, abuseVars, payVars, sem_waiters, age>>

\* a waiting update can resume now
LimiterReady ==
  \E u \in Updates :
    upc[u] = "acquire" /\ Head(sem_waiters) = u /\ semaphore > 0

\* one second passes for the waiting updates
LimiterTick ==
  /\ ~LimiterReady
  /\ \E u \in Updates : upc[u] = "acquire" /\ ~Stale(age[u])
  /\ age' = [u \in Updates |->
               IF upc[u] = "acquire" /\ ~Stale(age[u]) THEN age[u] + 1 ELSE age[u]]
  /\ UNCHANGED <<engineVars, abuseVars, payVars, semaphore, sem_waiters, upc, exit_path>>

LimiterNext ==
  \/ \E u \in Updates, callback \in BOOLEAN : UpdateArrives(u, callback)
  \/ \E u \in Updates : AnswerReturns(u)
  \/ \E u \in Updates : SemaphoreAcquired(u)
  \/ \E u \in Updates, raises \in BOOLEAN : HandlerEnds(u, raises)
  \/ \E u \in Updates : RejectEnds(u)
  \/ LimiterTick

\* no broadcast is under way
EngineIdle ==
  /\ EngineInit
  /\ messages = <<>> /\ workers = 0 /\ ~on_progress /\ ~session

\* the components as constructed, with no broadcast asked for
Quiet == EngineIdle /\ LimiterInit /\ AbuseInit /\ RobokassaInit

LimiterSpec == Quiet /\ [][LimiterNext]_vars

\* ------------------------------------------------------------ webhook abuse

\* cache_set and cache_incr: ttl = max(1, int(ttl_sec))
Ttl(ttl_sec) == Max(1, ttl_sec)

\* record_webhook_signature_failure: the test that blocks the address
ReachesThreshold(count) == count >= FailThreshold

\* is_webhook_ip_blocked: cache_get returns None without Redis
IsWebhookIpBlocked(ip, redis_ok) ==
  IF ip = "unknown" THEN FALSE ELSE redis_ok /\ block_ttl[ip] > 0

\* record_webhook_signature_failure(ip).  cache_incr increments the fail key
\* and gives it its ttl when it has just been created, or returns 1 without
\* Redis; at the threshold cache_set writes the block key and cache_delete
\* removes the fail key
RecordWebhookSignatureFailure(ip, redis_ok) ==
  IF ip = "unknown"
  THEN UNCHANGED abuseVars
  ELSE
    LET value == fail_count[ip] + 1
        count == IF redis_ok THEN value ELSE 1
        seen == Len(fail_ages[ip]) + 1
    IN
    /\ fail_ages' = [fail_ages EXCEPT ![ip] = Append(@, 0)]
    /\ IF ~redis_ok
       THEN UNCHANGED <<fail_count, fail_ttl, block_ttl, block_seen>>
       ELSE IF ReachesThreshold(count)
       THEN /\ block_ttl' = [block_ttl EXCEPT ![ip] = Ttl(BlockTtlSec)]
            /\ block_seen' = [block_seen EXCEPT ![ip] = seen]
            /\ fail_count' = [fail_count EXCEPT ![ip] = 0]
            /\ fail_ttl' = [fail_ttl EXCEPT ![ip] = 0]
       ELSE /\ fail_count' = [fail_count EXCEPT ![ip] = value]
            /\ fail_ttl' = [fail_ttl EXCEPT ![ip] =
                              IF value = 1 THEN Ttl(FailWindowSec) ELSE @]
            /\ UNCHANGED <<block_ttl, block_seen>>

\* a webhook with a bad signature comes from ip
SignatureFailure(ip, redis_ok) ==
  /\ Len(fail_ages[ip]) <= FailThreshold
  /\ RecordWebhookSignatureFailure(ip, redis_ok)
  /\ UNCHANGED <<engineVars, limiterVars, payVars>>

\* one second passes: the keys whose time is up expire
AbuseTick ==
  /\ \E ip \in Ips : fail_ttl[ip] > 0 \/ block_ttl[ip] > 0 \/ fail_ages[ip] # <<>>
  /\ fail_ttl' = [ip \in Ips |-> Max(0, fail_ttl[ip] - 1)]
  /\ fail_count' = [ip \in Ips |-> IF fail_ttl[ip] <= 1 THEN 0 ELSE fail_count[ip]]
  /\ block_ttl' = [ip \in Ips |-> Max(0, block_ttl[ip] - 1)]
  /\ block_seen' = [ip \in Ips |-> IF block_ttl[ip] <= 1 THEN 0 ELSE block_seen[ip]]
  /\ fail_ages' = [ip \in Ips |->
                     SelectSeq([i \in 1..Len(fail_ages[ip]) |-> fail_ages[ip][i] + 1],
                               LAMBDA a : a < Ttl(FailWindowSec))]
  /\ UNCHANGED <<engineVars, limiterVars, payVars>>

AbuseNext ==
  \/ \E ip \in Ips, redis_ok \in BOOLEAN : SignatureFailure(ip, redis_ok)
  \/ AbuseTick

AbuseSpec == Quiet /\ [][AbuseNext]_vars

\* -------------------------------------------------------- robokassa_webhook

\* the payment is started.  register_pending_payment writes it to Redis only
\* ("redis"), or writes nothing when cache_set fails ("nowhere"); "db" is a
\* row of payments with status pending, the case robokassa_webhook handles
\* with update_payment_status
RegisterPendingPayment(where) ==
  /\ ~registered
  /\ registered' = TRUE
  /\ payment_cache' = (where = "redis")
  /\ payments' = IF where = "db" THEN <<"pending">> ELSE <<>>
  /\ UNCHANGED <<engineVars, limiterVars, abuseVars, hpc, payment, inserted,
                 credits, response>>

\* robokassa_webhook returns a response
Respond(d, r) ==
  /\ hpc' = [hpc EXCEPT ![d] = "done"]
  /\ response' = [response EXCEPT ![d] = r]

\* a validly signed delivery with all its parameters reaches
\* robokassa_webhook: 429 for a blocked address, else the handler opens its
\* session and looks the payment up
WebhookArrives(d, blocked) ==
  /\ registered
  /\ hpc[d] = "none"
  /\ \A e \in Deliveries : hpc[e] = "none" => d <= e
  /\ IF blocked
     THEN Respond(d, "429")
     ELSE /\ hpc' = [hpc EXCEPT ![d] = "lookup"]
          /\ UNCHANGED response
  /\ UNCHANGED <<engineVars, limiterVars, abuseVars, registered, payment_cache,
                 payments, payment, inserted, credits>>

\* get_payment_by_payment_id: the Redis entry first, a record without id and
\* with status pending; else the row of payments (limit 1), or None when
\* there is none or the query fails
GetPaymentByPaymentId(redis_ok, db_ok) ==
  IF redis_ok /\ payment_cache
  THEN [found |-> TRUE, id |-> 0, status |-> "pending"]
  ELSE IF db_ok /\ payments # <<>>
  THEN [found |-> TRUE, id |-> 1, status |-> Head(payments)]
  ELSE NoPayment

\* robokassa_webhook after the look-up: OK at once for a payment in status
\* success, update_payment_status for a row with an id, add_payment else
AfterLookup(p) ==
  IF p.found /\ p.status = "success" THEN "done"
  ELSE IF p.found /\ p.id # 0 THEN "update_status"
  ELSE "add"

\* the look-up of delivery d returns
LookupReturns(d, redis_ok, db_ok) ==
  LET p == GetPaymentByPaymentId(redis_ok, db_ok) IN
  /\ hpc[d] = "lookup"
  /\ payment' = [payment EXCEPT ![d] = p]
  /\ IF AfterLookup(p) = "done"
     THEN Respond(d, "OK")
     ELSE /\ hpc' = [hpc EXCEPT ![d] = AfterLookup(p)]
          /\ UNCHANGED response
  /\ UNCHANGED <<engineVars, limiterVars, abuseVars, registered, payment_cache,
                 payments, inserted, credits>>

\* update_payment_status(internal_id, "success"): selects the row, sets its
\* status whatever it was and commits, or fails and returns False (500)
UpdatePaymentStatus(d, ok) ==
  /\ hpc[d] = "update_status"
  /\ IF ok
     THEN /\ payments' = [payments EXCEPT ![payment[d].id] = "success"]
          /\ hpc' = [hpc EXCEPT ![d] = "balance"]
          /\ UNCHANGED response
     ELSE /\ Respond(d, "500")
          /\ UNCHANGED payments
  /\ UNCHANGED <<engineVars, limiterVars, abuseVars, registered, payment_cache,
                 payment, inserted, credits>>

\* the insert of add_payment fails.  The schema of payments is not among the
\* sources: the table is taken to admit one row for a payment_id, the case
\* most in favour of a single credit, so an insert fails when a row is there
\* or another session holds one
DuplicateRejected(d) ==
  \/ payments # <<>>
  \/ \E e \in Deliveries : e # d /\ inserted[e]

\* add_payment(status="success"): the insert is executed in the delivery's
\* session and not committed, or raises SQLAlchemyError (500)
AddPayment(d, ok) ==
  /\ hpc[d] = "add"
  /\ ok => ~DuplicateRejected(d)
  /\ IF ok
     THEN /\ inserted' = [inserted EXCEPT ![d] = TRUE]
          /\ hpc' = [hpc EXCEPT ![d] = "balance"]
          /\ UNCHANGED response
     ELSE /\ Respond(d, "500")
          /\ UNCHANGED inserted
  /\ UNCHANGED <<engineVars, limiterVars, abuseVars, registered, payment_cache,
                 payments, payment, credits>>

\* update_balance(session, tg_id, amount): credits the user and commits the
\* session, the inserted row with it; or raises, and the session is closed
\* without a commit (500)
UpdateBalance(d, ok) ==
  /\ hpc[d] = "balance"
  /\ inserted' = [inserted EXCEPT ![d] = FALSE]
  /\ IF ok
     THEN /\ credits' = credits + 1
          /\ payments' = IF inserted[d] THEN Append(payments, "success")
                         ELSE payments
          /\ hpc' = [hpc EXCEPT ![d] = "notify"]
          /\ UNCHANGED response
     ELSE /\ Respond(d, "500")
          /\ UNCHANGED <<credits, payments>>
  /\ UNCHANGED <<engineVars, limiterVars, abuseVars, registered, payment_cache,
                 payment>>

\* send_payment_success_notification returns, or raises (500)
NotificationReturns(d, ok) ==
  /\ hpc[d] = "notify"
  /\ IF ok
     THEN /\ hpc' = [hpc EXCEPT ![d] = "invalidate"]
          /\ UNCHANGED response
     ELSE Respond(d, "500")
  /\ UNCHANGED <<engineVars, limiterVars, abuseVars, registered, payment_cache,
                 payments, payment, inserted, credits>>

\* invalidate_payment_cache: cache_delete removes the Redis entry, or does
\* nothing when Redis fails; then OK
InvalidatePaymentCache(d, redis_ok) ==
  /\ hpc[d] = "invalidate"
  /\ payment_cache' = IF redis_ok THEN FALSE ELSE payment_cache
  /\ Respond(d, "OK")
  /\ UNCHANGED <<engineVars, limiterVars, abuseVars, registered, payments,
                 payment, inserted, credits>>

RobokassaNext ==
  \/ \E where \in {"redis", "db", "nowhere"} : RegisterPendingPayment(where)
  \/ \E d \in Deliveries, blocked \in BOOLEAN : WebhookArrives(d, blocked)
  \/ \E d \in Deliveries, redis_ok \in BOOLEAN, db_ok \in BOOLEAN :
       LookupReturns(d, redis_ok, db_ok)
  \/ \E d \in Deliveries, ok \in BOOLEAN : UpdatePaymentStatus(d, ok)
  \/ \E d \in Deliveries, ok \in BOOLEAN : AddPayment(d, ok)
  \/ \E d \in Deliveries, ok \in BOOLEAN : UpdateBalance(d, ok)
  \/ \E d \in Deliveries, ok \in BOOLEAN : NotificationReturns(d, ok)
  \/ \E d \in Deliveries, redis_ok \in BOOLEAN : InvalidatePaymentCache(d, redis_ok)

RobokassaSpec == Quiet /\ [][RobokassaNext]_vars

\* ------------------------------------------------------------- properties

\* where a unit is
InQueue(u) == \E i \in 1..Len(queue) : queue[i] = u
InDelayedQueue(u) == \E i \in 1..Len(delayed_queue) : delayed_queue[i] = u
HeldByWorker(u) == \E w \in Workers : wmsg[w] = u
HeldByDelayed(u) == smsg = u
Discarded(u) ==
  ~InQueue(u) /\ ~InDelayedQueue(u) /\ ~HeldByWorker(u) /\ ~HeldByDelayed(u)

Returned == bpc = "returned" /\ stats.returned

\* some message to the recipient of u was answered "unreachable"
RecipientFoundUnreachable(u) ==
  \E v \in Units : messages[v] = messages[u] /\ last[v] = "RecipientUnreachable"

\* C1 (conservation): in the statistics broadcast() returns,
\* total_sent + failed_count = total_messages.
C1_Conservation ==
  Returned => stats.total_sent + stats.failed_count = stats.total_messages

C3_DrainBeforeStop ==
  (bpc \notin {"init", "join", "drain"}) => \A u \in Units : Discarded(u)

\* C4 (retry then success): when broadcast() has returned, a unit whose sends
\* were answered by fewer than 3 RateLimited and nothing else but Success is
\* counted as sent.
C4_RetryThenSuccess ==
  Returned =>
    \A u \in Units :
      (last[u] \in {"RateLimited", "Success"} /\ attempts[u] < MaxAttempts)
        => recorded[u] = <<TRUE>>

\* C5 (retry bound): when broadcast() has returned, a unit whose every send
\* was answered RateLimited has been sent exactly 3 times, has exactly one
\* failure recorded and has not put its recipient into blocked_users.
C5_RetryBound ==
  Returned =>
    \A u \in Units :
      last[u] = "RateLimited" =>
        /\ sends[u] = MaxAttempts
        /\ recorded[u] = <<FALSE>>
        /\ (~RecipientFoundUnreachable(u) => messages[u] \notin blocked_users)

\* C6 (blocked classification): a unit whose first send was answered
\* RecipientUnreachable has been sent exactly once and is not sent again, has
\* exactly one failure recorded, and its recipient is in blocked_users and in
\* the blocked_user_ids of the returned statistics, whose failed_count counts
\* the failure.
C6_BlockedFirstSend ==
  \A u \in Units :
    (last[u] = "RecipientUnreachable" /\ attempts[u] = 0) =>
      /\ sends[u] = 1
      /\ Discarded(u)
      /\ recorded[u] = <<FALSE>>
      /\ messages[u] \in blocked_users
      /\ Returned =>
           /\ messages[u] \in stats.blocked_user_ids
           /\ stats.failed_count >=
                Cardinality({v \in Units : last[v] = "RecipientUnreachable"
                                           /\ attempts[v] = 0})

\* broadcast() has returned after a first send was answered
\* RecipientUnreachable
C6_Witness ==
  /\ Returned
  /\ \E u \in Units : last[u] = "RecipientUnreachable" /\ attempts[u] = 0

\* C7 (terminal-blocked on any attempt): a unit whose send was answered
\* RecipientUnreachable, on whichever attempt, has its recipient in
\* blocked_users, has exactly one failure recorded and is not sent again.
C7_BlockedAnyAttempt ==
  \A u \in Units :
    last[u] = "RecipientUnreachable" =>
      /\ messages[u] \in blocked_users
      /\ recorded[u] = <<FALSE>>
      /\ Discarded(u)

\* C8 (TransientError is terminal): a unit whose send was answered by a
\* TransientError is not sent again, has one failure recorded and has not put
\* its recipient into blocked_users.
C8_TransientTerminal ==
  \A u \in Units :
    last[u] = "TransientError" =>
      /\ Discarded(u)
      /\ recorded[u] = <<FALSE>>
      /\ (~RecipientFoundUnreachable(u) => messages[u] \notin blocked_users)

\* the exception of a failed rollback has left broadcast()
Raised == bpc = "raised"

C10_InvalidWorkersRejected ==
  (workers <= 0 /\ Len(messages) > 0) => (bpc = "init" /\ ~is_running)

\* C11 (blocked-recipient flush): a run that returns with a non-empty
\* blocked set has called save_blocked_user_ids exactly once, with a list that
\* holds every blocked id, whether the engine was given a session or not.
C11_FlushOnce ==
  (Returned /\ stats.blocked_user_ids # {}) =>
    /\ Len(saved) = 1
    /\ stats.blocked_user_ids \subseteq saved[1]

\* C12 (persistence failure is swallowed): whatever fails in
\* save_blocked_user_ids or in the rollback after it, no exception leaves
\* broadcast().
C12_PersistenceFailureSwallowed == ~Raised

\* C13 (progress callback isolation): the step in which a periodic
\* on_progress call ends, by returning or by raising, puts the progress loop
\* into its next sleep and leaves broadcast(), every worker, results,
\* total_sent and blocked_users as they are; the step in which the final call
\* ends takes broadcast() on to cancel and gather its tasks, with the counters
\* as they are.
C13_ProgressIsolation ==
  [][/\ (ppc = "callback" /\ ppc' # "callback" /\ is_running')
        => /\ ppc' = "sleep"
           /\ UNCHANGED <<bpc, wpc, results, total_sent, blocked_users>>
     /\ (bpc = "final_progress" /\ bpc' # "final_progress")
        => /\ bpc' = "gather"
           /\ UNCHANGED <<results, total_sent, blocked_users>>]_vars

\* a periodic on_progress call has ended and the run goes on: the progress
\* loop sleeps and a worker is sending
C13_Witness ==
  /\ reported.called /\ ~reported.final
  /\ is_running /\ ppc = "sleep"
  /\ \E w \in Tasks : wpc[w] = "send"

\* C14 (final progress): when broadcast() has returned from a run with a
\* callback and a non-empty list, the last on_progress call was the final
\* one and reported completed = total.
C14_FinalProgress ==
  (Returned /\ HasProgressTask) =>
    /\ reported.called /\ reported.final
    /\ reported.completed = reported.total

\* C15 (progress monotonicity): every on_progress call reports a completed
\* that is sent + failed and at most total, and a call after another reports
\* a completed that is not less.
C15_ProgressMonotonic ==
  /\ [](reported.called =>
          /\ reported.completed = reported.sent + reported.failed
          /\ reported.completed <= reported.total)
  /\ [][(reported.called /\ reported'.called)
          => reported'.completed >= reported.completed]_vars

\* a periodic on_progress call has reported, results have been recorded since
\* and the final call is about to report them
C15_Witness ==
  /\ bpc = "stop_progress"
  /\ reported.called /\ ~reported.final
  /\ reported.completed < ResultsLen(results)

\* C16 (no hard abort): a worker task that has been cancelled holds no unit:
\* it was not between taking a unit from the queue and recording its outcome.
C16_NoHardAbort ==
  \A w \in Workers : wpc[w] = "cancelled" => wmsg[w] = 0

\* C17 (no state between runs): when broadcast() has returned, queue and
\* delayed_queue are empty and the queue counts no unfinished unit.
C17_NoStateBetweenRuns ==
  Returned => (queue = <<>> /\ delayed_queue = <<>> /\ unfinished = 0)

C19_LimiterPermits ==
  /\ Cardinality(PastSemaphore) <= ConcurrencyLimit
  /\ semaphore = ConcurrencyLimit - Cardinality(PastSemaphore)

\* an update was turned away as stale and has given its permit back, while
\* the limit is reached again and another update waits
C19_Witness ==
  /\ exit_path = "rejected"
  /\ Cardinality(PastSemaphore) = ConcurrencyLimit
  /\ sem_waiters # <<>>

\* C20 (webhook abuse block): an address is blocked only after its failures
\* within the fail window have exceeded WEBHOOK_ABUSE_FAIL_THRESHOLD, and the
\* address "unknown" is never counted or blocked.
C20_BlockedAboveThreshold ==
  /\ \A ip \in Ips :
       IsWebhookIpBlocked(ip, TRUE) => block_seen[ip] > FailThreshold
  /\ fail_count["unknown"] = 0 /\ block_ttl["unknown"] = 0

\* acquire() grants worker w in this step
Granted(w) == wpc[w] # "send" /\ wpc'[w] = "send"

\* C21 (RateGate serialization): the callers of acquire() are served one at a
\* time in the order in which they reached the lock: the caller suspended
\* inside acquire() is the one at the head of that order and no other sleeps
\* there, a grant goes to the caller at the head and to no other while one is
\* suspended, and the order changes only by a caller joining at its end, by
\* the granted caller leaving its head, or by the cancellation of the tasks.
C21_GateSerialized ==
  /\ [](\A w \in Workers : wpc[w] = "gate_sleep" => LockHandedTo(lock, w))
  /\ [][/\ \A w \in Workers :
            Granted(w) =>
              /\ lock = <<>> \/ Head(lock) = w
              /\ \A v \in Workers : wpc[v] = "gate_sleep" => v = w
        /\ \/ lock' = lock
           \/ lock' = <<>>
           \/ lock # <<>> /\ lock' = Tail(lock) /\ Granted(Head(lock))
           \/ \E w \in Workers : lock' = Append(lock, w)]_vars

\* a caller sleeps inside acquire() for the window to free up while another,
\* which came after it, waits for the lock
C21_Witness ==
  \E w, v \in Workers :
    /\ wpc[w] = "gate_sleep" /\ wtimer[w] > 0
    /\ wpc[v] = "lock"
    /\ lock = <<w, v>>

\* the delayed-message task puts unit u back on the queue in this step
PushedBack(u) == bpc # "init" /\ queue' = Append(queue, u)

\* C22 (retry delay is respected): the step that puts a rate-limited unit
\* back on the queue is taken when at least retry_after seconds have passed
\* since the unit's RateLimited answer, and leaves the unit's retry_after
\* cleared.
C22_RetryDelayRespected ==
  [][\A u \in Units :
       PushedBack(u) =>
         /\ retry_after[u] >= 1
         /\ since[u] >= retry_after[u]
         /\ retry_after'[u] = 0]_vars

\* a unit that was answered RateLimited is back on the queue with its
\* retry_after cleared, while the run goes on
C22_Witness ==
  /\ is_running
  /\ \E u \in Units :
       /\ InQueue(u)
       /\ attempts[u] >= 1
       /\ retry_after[u] = 0

\* C23 (only the remaining delay is waited): while the run goes on, a unit in
\* the delayed queue or held by the delayed-message task has waited no longer
\* than its retry_after since its RateLimited answer, whatever is ahead of it
\* in the delayed queue.
C23_RemainingDelayOnly ==
  \A u \in Units :
    (is_running /\ (InDelayedQueue(u) \/ HeldByDelayed(u)))
      => since[u] <= retry_after[u]

\* C24 (bounded attempts): whatever the send calls answer, no unit is sent
\* more than 3 times in a run and no unit's attempts counter exceeds 3.
C24_BoundedAttempts ==
  \A u \in Units : sends[u] <= MaxAttempts /\ attempts[u] <= MaxAttempts

\* a unit was answered RateLimited three times and the delayed-message task
\* has given it up, while the run goes on
C24_Witness ==
  /\ is_running
  /\ \E u \in Units :
       /\ sends[u] = MaxAttempts /\ attempts[u] = MaxAttempts
       /\ Discarded(u)
       /\ recorded[u] = <<FALSE>>

\* the number of places a unit is in: each position in the queue and in the
\* delayed queue, each worker that holds it, the delayed-message task
Places(u) ==
  Cardinality({i \in 1..Len(queue) : queue[i] = u})
  + Cardinality({i \in 1..Len(delayed_queue) : delayed_queue[i] = u})
  + Cardinality({w \in Workers : wmsg[w] = u})
  + (IF smsg = u THEN 1 ELSE 0)

\* the last send of u had a terminal outcome: Success, RecipientUnreachable,
\* TransientError, or RateLimited with the attempts used up
Terminal(u) ==
  \/ last[u] \in {"Success", "RecipientUnreachable", "TransientError"}
  \/ last[u] = "RateLimited" /\ attempts[u] >= MaxAttempts

RECURSIVE RecordedTo(_)
RecordedTo(n) == IF n = 0 THEN 0 ELSE Len(recorded[n]) + RecordedTo(n - 1)

\* C26 (at most one result per unit): each unit has contributed at most one
\* entry to results, results holds the units' entries and no other, so
\* len(results) <= total_messages; total_sent is the number of True entries,
\* and success_count = total_sent in the statistics broadcast() returns.
C26_OneResultPerUnit ==
  /\ \A u \in Units : Len(recorded[u]) <= 1
  /\ bpc # "init" =>
       /\ ResultsLen(results) = RecordedTo(Len(messages))
       /\ ResultsLen(results) <= Len(messages)
       /\ total_sent = results.ok
  /\ Returned => stats.success_count = stats.total_sent

\* broadcast() has returned from a run in which one unit was sent after a
\* RateLimited answer and another was given up after its third
C26_Witness ==
  /\ Returned
  /\ \E u, v \in Units :
       /\ attempts[u] >= 1 /\ recorded[u] = <<TRUE>>
       /\ attempts[v] = MaxAttempts /\ recorded[v] = <<FALSE>>

\* C27 (final snapshot matches the result): when broadcast() has returned
\* from a run with a progress task, the sent and failed of its final
\* on_progress call are the total_sent and failed_count of the statistics it
\* returns.
C27_FinalSnapshotMatches ==
  (Returned /\ HasProgressTask) =>
    /\ reported.called /\ reported.final
    /\ reported.sent = stats.total_sent
    /\ reported.failed = stats.failed_count

\* worker w is inside acquire(): it waits for the lock or sleeps in the loop
InAcquire(w) == wpc[w] \in {"lock", "gate_sleep"}

\* C28 (RateGate liveness): with max_rate >= 1 and time advancing, every
\* caller inside acquire() is granted in the end, however many callers there
\* are.
C28_GateLiveness ==
  \A w \in Workers : InAcquire(w) ~> (wpc[w] = "send")

\* the recipients for which a send of this run was answered
\* RecipientUnreachable; such an answer is the last one its unit gets
FoundUnreachable ==
  {messages[u] : u \in {v \in Units : last[v] = "RecipientUnreachable"}}

\* C29 (blocked set is exact): from the start of the run on, blocked_users
\* holds exactly the recipients for which a send of this run was answered
\* RecipientUnreachable, and the statistics broadcast() returns give that set
\* as blocked_user_ids and the number of its members as blocked_users.
C29_BlockedSetExact ==
  /\ bpc # "init" => blocked_users = FoundUnreachable
  /\ Returned =>
       /\ stats.blocked_user_ids = FoundUnreachable
       /\ stats.blocked_users = Cardinality(FoundUnreachable)

\* broadcast() has returned from a run in which one recipient was found
\* unreachable and the send to another failed with a TransientError
C29_Witness ==
  /\ Returned
  /\ \E u, v \in Units :
       /\ messages[u] # messages[v]
       /\ last[u] = "RecipientUnreachable"
       /\ last[v] = "TransientError"
       /\ stats.blocked_user_ids = {messages[u]}

\* C30 (payment credited at most once): however many deliveries of the
\* webhook for one payment id there are, one after the other or overlapping,
\* update_balance credits at most once; a delivery that found the payment in
\* status success has got OK.
C30_CreditedAtMostOnce ==
  /\ credits <= 1
  /\ \A d \in Deliveries :
       (hpc[d] = "done" /\ payment[d].status = "success") => response[d] = "OK"

====
